---- MODULE Spec2Model ----
(***************************************************************************)
(* Model of src/commands/add/utils.ts of kirimase: the layout patcher      *)
(* (addContextProviderToLayout), the install-list and shadcn component     *)
(* aggregators with their flushes, and the next-steps summary              *)
(* (printNextSteps).                                                       *)
(*                                                                         *)
(* Text is modelled as a sequence of tokens.  A document is cut so that    *)
(* every occurrence of a text the code searches for ("import", "\n",       *)
(* "{children}", "<Navbar />", the lines of the navigation block) is a     *)
(* token of its own and no other token contains one of them; substring     *)
(* search, slicing and replacement on the text are then the same           *)
(* operations on the token sequence.  Indices are 0-based as in            *)
(* JavaScript, and a failed search yields -1.                              *)
(***************************************************************************)
EXTENDS Integers, Sequences, FiniteSets, TLC

VARIABLES
    layout,              \* content of app/layout.tsx
    layout0,             \* content of app/layout.tsx before the first call
    applied,             \* providers passed to addContextProviderToLayout so far
    lastCall,            \* what the latest addContextProviderToLayout call did
    installList,         \* [regular, dev]: the module-level install list
    shadCnComponentList, \* the module-level shadcn component list
    installPackagesCalls,        \* arguments of each installPackages invocation
    installShadcnCalls,          \* arguments of each installShadcnUIComponents invocation
    flushes,             \* [packages, shadcn]: the lists each flush call found
    summary              \* what each printNextSteps call handed to showNextSteps

vars == <<layout, layout0, applied, lastCall, installList, shadCnComponentList,
          installPackagesCalls, installShadcnCalls, flushes, summary>>

layoutVars == <<layout, layout0, applied, lastCall>>
installVars == <<installList, shadCnComponentList, installPackagesCalls,
                 installShadcnCalls, flushes>>

-----------------------------------------------------------------------------
(* Bounds *)

MaxCalls == 4

-----------------------------------------------------------------------------
(* JavaScript string primitives, on token sequences *)

\* s.slice(a, b)
Slice(s, a, b) == SubSeq(s, a + 1, b)

\* s.slice(a)
SliceFrom(s, a) == SubSeq(s, a + 1, Len(s))

\* whether p occurs in s at 0-based position i
OccursAt(s, p, i) == i >= 0 /\ i + Len(p) <= Len(s) /\ Slice(s, i, i + Len(p)) = p

\* the positions at which p occurs in s
Occurrences(s, p) == {i \in 0..Len(s) : OccursAt(s, p, i)}

SetMin(S) == CHOOSE m \in S : \A n \in S : m <= n

SetMax(S) == CHOOSE m \in S : \A n \in S : m >= n

\* s.indexOf(p, from): the first occurrence at or after from (a negative from
\* counts as 0), -1 when there is none
IndexOf(s, p, from) ==
    LET hits == {i \in Occurrences(s, p) : i >= from}
    IN  IF hits = {} THEN -1 ELSE SetMin(hits)

\* s.lastIndexOf(p)
LastIndexOf(s, p) ==
    IF Occurrences(s, p) = {} THEN -1 ELSE SetMax(Occurrences(s, p))

\* s.includes(p)
Includes(s, p) == Occurrences(s, p) # {}

\* s.replace(p, r) with a string pattern: the first occurrence only, and s
\* itself when p does not occur
Replace(s, p, r) ==
    LET i == IndexOf(s, p, 0)
    IN  IF i = -1 THEN s
        ELSE Slice(s, 0, i) \o r \o SliceFrom(s, i + Len(p))

-----------------------------------------------------------------------------
(* addContextProviderToLayout *)

Providers == {"NextAuthProvider", "TrpcProvider", "ShadcnToast",
              "ClerkProvider", "Navbar", "ThemeProvider"}

NL == "\n"

\* the statement the switch over provider builds; alias is "@" and the paths
\* are those formatFilePath returns for the default file layout
ImportStatement(provider) ==
    CASE provider = "NextAuthProvider" ->
           <<"import", " NextAuthProvider from \"@/lib/auth/Provider\"", ";">>
      [] provider = "TrpcProvider" ->
           <<"import", " TrpcProvider from \"@/lib/trpc/Provider\"", ";", NL,
             "import", " { cookies } from \"next/headers\"", ";">>
      [] provider = "ShadcnToast" ->
           <<"import", " { Toaster } from \"@/components/ui/toaster\"", ";">>
      [] provider = "ClerkProvider" ->
           <<"import", " { ClerkProvider } from \"@clerk/nextjs\"", ";">>
      [] provider = "Navbar" ->
           <<"import", " Navbar from \"@/components/Navbar\"", ";", NL,
             "import", " Sidebar from \"@/components/Sidebar\"", ";">>
      [] provider = "ThemeProvider" ->
           <<"import", " { ThemeProvider } from \"@/components/ThemeProvider\"", ";">>

\* fileContent.indexOf("\n", fileContent.lastIndexOf("import")) + 1
NextLineAfterLastImport(fileContent) ==
    IndexOf(fileContent, <<NL>>, LastIndexOf(fileContent, <<"import">>)) + 1

\* `${beforeImport}${importStatement}\n${afterImport}`
ModifiedImportContent(fileContent, importStatement) ==
    Slice(fileContent, 0, NextLineAfterLastImport(fileContent))
        \o importStatement \o <<NL>>
        \o SliceFrom(fileContent, NextLineAfterLastImport(fileContent))

AlreadyExistsAtStart(fileContent, provider) ==
    OccursAt(fileContent, ImportStatement(provider), 0)

\* the check "if the provider already exists"
AlreadyExists(fileContent, provider) ==
    Includes(fileContent, ImportStatement(provider))

NavbarExistsUnchecked(fileContent) == FALSE

\* fileContent.includes("<Navbar />")
NavbarExists(fileContent) == Includes(fileContent, <<"<Navbar />">>)

NavigationBlock ==
    <<"<div className=\"flex\">", NL, "<Sidebar />", NL,
      "<main className=\"flex-1 md:p-8 pt-2 p-8\">", NL, "<Navbar />", NL,
      "{children}", NL, "</main>", NL, "</div>">>

RootChildrenText(navbarExists) ==
    IF ~navbarExists THEN <<"{children}">> ELSE NavigationBlock

SearchValue(navbarExists) ==
    IF ~navbarExists THEN <<"{children}">> ELSE NavigationBlock

OpenTag(provider) ==
    CASE provider = "ThemeProvider" ->
           "<ThemeProvider attribute=\"class\" defaultTheme=\"system\" enableSystem disableTransitionOnChange>"
      [] provider = "TrpcProvider" -> "<TrpcProvider cookies={cookies().toString()}>"
      [] OTHER -> "<" \o provider \o ">"

CloseTag(provider) == "</" \o provider \o ">"

ReplacementTextOutside(provider, rootChildrenText) ==
    CASE provider = "ShadcnToast" -> rootChildrenText \o <<NL, "<Toaster />", NL>>
      [] provider = "Navbar" -> NavigationBlock
      [] OTHER -> <<NL, OpenTag(provider), CloseTag(provider), NL>> \o rootChildrenText

\* the switch that builds replacementText
ReplacementText(provider, rootChildrenText) ==
    CASE provider = "ShadcnToast" -> rootChildrenText \o <<NL, "<Toaster />", NL>>
      [] provider = "Navbar" -> NavigationBlock
      [] OTHER -> <<NL, OpenTag(provider)>> \o rootChildrenText
                      \o <<CloseTag(provider), NL>>

\* modifiedImportContent.replace(searchValue, replacementText)
NewLayoutContent(fileContent, provider) ==
    Replace(ModifiedImportContent(fileContent, ImportStatement(provider)),
            SearchValue(NavbarExists(fileContent)),
            ReplacementText(provider, RootChildrenText(NavbarExists(fileContent))))

NoCall == [provider |-> "none", fileContent |-> <<>>, returned |-> FALSE,
           modifiedImportContent |-> <<>>, searchValue |-> <<>>,
           wrote |-> FALSE, thrown |-> "none"]

\* One call of addContextProviderToLayout(provider).  No statement of the
\* function throws once the file has been read, so thrown stays "none";
\* replaceFile is reached on every path but the early return.
addContextProviderToLayout(provider) ==
    /\ Len(applied) < MaxCalls
    /\ applied' = Append(applied, provider)
    /\ IF AlreadyExists(layout, provider)
       THEN /\ layout' = layout
            /\ lastCall' = [NoCall EXCEPT !.provider = provider,
                                          !.fileContent = layout,
                                          !.returned = TRUE]
       ELSE /\ layout' = NewLayoutContent(layout, provider)
            /\ lastCall' = [NoCall EXCEPT
                  !.provider = provider,
                  !.fileContent = layout,
                  !.modifiedImportContent =
                      ModifiedImportContent(layout, ImportStatement(provider)),
                  !.searchValue = SearchValue(NavbarExists(layout)),
                  !.wrote = TRUE]
    /\ UNCHANGED <<layout0, installVars, summary>>

-----------------------------------------------------------------------------
(* layout.tsx files the function is run on *)

BodyHead ==
    <<NL, "export default function RootLayout({ children }) {", NL,
      "return (", NL, "<html lang=\"en\">", NL, "<body>">>

BodyTail == <<"</body>", NL, "</html>", NL, ")", ";", NL, "}", NL>>

Imports ==
    <<"import", " type { Metadata } from \"next\"", ";", NL,
      "import", " \"./globals.css\"", ";", NL>>

\* what create-next-app writes
StandardLayout == Imports \o BodyHead \o <<"{children}">> \o BodyTail

\* no import statement at all
NoImportLayout == <<"// root layout", NL>> \o BodyHead \o <<"{children}">> \o BodyTail

\* the children are rendered through props: no {children} text
NoAnchorLayout == Imports \o BodyHead \o <<"{props.children}">> \o BodyTail

\* the text "import" also occurs below the import statements
DynamicImportLayout ==
    Imports
      \o <<NL, "const Analytics = lazy(() => ", "import", "(\"./analytics\"))", ";", NL>>
      \o BodyHead \o <<"{children}">> \o BodyTail

\* the last import statement spans several lines
MultiLineImportLayout ==
    Imports
      \o <<"import", " {", NL, "  Inter,", NL, "} from \"next/font/google\"", ";", NL>>
      \o BodyHead \o <<"{children}">> \o BodyTail

\* the project already renders a Navbar of its own
OwnNavbarLayout ==
    Imports \o BodyHead \o <<"<Navbar />", NL, "{children}">> \o BodyTail

\* a layout to which Navbar was added by an earlier run
NavigationLayout ==
    Imports \o ImportStatement("Navbar") \o <<NL>>
      \o BodyHead \o NavigationBlock \o BodyTail

Layouts == {StandardLayout, NoImportLayout, NoAnchorLayout, DynamicImportLayout,
            MultiLineImportLayout, OwnNavbarLayout, NavigationLayout}

-----------------------------------------------------------------------------

(* addToInstallList, installPackagesFromList,                              *)
(* addToShadcnComponentList, installShadcnComponentList                    *)
(*                                                                         *)
(* A list entry is a token sequence: a package name, with " " tokens where *)
(* the caller left whitespace around it.                                   *)

MaxList == 2

RECURSIVE TrimStart(_)
\* the entry without its leading whitespace
TrimStart(e) == IF e # <<>> /\ Head(e) = " " THEN TrimStart(Tail(e)) ELSE e

RECURSIVE TrimEnd(_)
\* the entry without its trailing whitespace
TrimEnd(e) ==
    IF e # <<>> /\ e[Len(e)] = " " THEN TrimEnd(SubSeq(e, 1, Len(e) - 1)) ELSE e

\* e.trim()
Trim(e) == TrimEnd(TrimStart(e))

RECURSIVE Join(_, _)
\* list.join(sep)
Join(list, sep) ==
    IF list = <<>> THEN <<>>
    ELSE IF Len(list) = 1 THEN list[1]
    ELSE list[1] \o sep \o Join(Tail(list), sep)

DedupedNot(list) == list

\* [...new Set(list)]: the distinct entries, in first-seen order
Deduped(list) ==
    LET first == {i \in 1..Len(list) : \A j \in 1..(i - 1) : list[j] # list[i]}
        F[i \in 0..Len(list)] ==
            IF i = 0 THEN <<>>
            ELSE IF i \in first THEN Append(F[i - 1], list[i]) ELSE F[i - 1]
    IN  F[Len(list)]

\* dedupedList.x.map((i) => i.trim()).join(" ").trim()
Formatted(list) ==
    Trim(Join([i \in 1..Len(Deduped(list)) |-> Trim(Deduped(list)[i])], <<" ">>))

NothingToInstallUnchecked(list) == FALSE

\* installList.dev.length === 0 && installList.regular.length === 0
NothingToInstall(list) == Len(list.dev) = 0 /\ Len(list.regular) = 0

RegularEntries == {<<"zod">>, <<" ", "zod">>, <<"drizzle-orm">>}
DevEntries == {<<"drizzle-kit">>, <<"drizzle-kit", " ">>}
Components == {"button"}
PackageManagers == {"npm", "pnpm"}

\* the arrays of at most n entries of S
Arrays(S, n) == UNION {[1..k -> S] : k \in 0..n}

addToInstallList(packages) ==
    /\ Len(installList.regular) + Len(packages.regular) <= MaxList
    /\ Len(installList.dev) + Len(packages.dev) <= MaxList
    /\ installList' = [regular |-> installList.regular \o packages.regular,
                       dev |-> installList.dev \o packages.dev]
    /\ UNCHANGED <<layoutVars, shadCnComponentList, installPackagesCalls,
                   installShadcnCalls, flushes, summary>>

\* One call per run (the pipeline flushes once); the list is left as it is.
installPackagesFromList(preferredPackageManager) ==
    /\ flushes.packages = <<>>
    /\ flushes' = [flushes EXCEPT !.packages = Append(@, installList)]
    /\ IF NothingToInstall(installList)
       THEN installPackagesCalls' = installPackagesCalls
       ELSE installPackagesCalls' = Append(installPackagesCalls,
              [packages |-> [regular |-> Formatted(installList.regular),
                             dev |-> Formatted(installList.dev)],
               pmType |-> preferredPackageManager])
    /\ UNCHANGED <<layoutVars, installList, shadCnComponentList,
                   installShadcnCalls, summary>>

addToShadcnComponentList(components) ==
    /\ Len(shadCnComponentList) + Len(components) <= MaxList
    /\ shadCnComponentList' = shadCnComponentList \o components
    /\ UNCHANGED <<layoutVars, installList, installPackagesCalls,
                   installShadcnCalls, flushes, summary>>

installShadcnComponentList ==
    /\ flushes.shadcn = <<>>
    /\ flushes' = [flushes EXCEPT !.shadcn = Append(@, shadCnComponentList)]
    /\ IF Len(shadCnComponentList) = 0
       THEN installShadcnCalls' = installShadcnCalls
       ELSE installShadcnCalls' = Append(installShadcnCalls, shadCnComponentList)
    /\ UNCHANGED <<layoutVars, installList, shadCnComponentList,
                   installPackagesCalls, summary>>

-----------------------------------------------------------------------------
(* printNextSteps *)

\* a selection the user did not make (undefined or null)
Undefined == "undefined"

Truthy(x) == x # Undefined /\ x # ""

\* config?.preferredPackageManager ?? "npm"
Ppm(config) == IF config = Undefined THEN "npm" ELSE config

\* chalk.underline(text): the text between the SGR codes 4 and 24
Underline(text) == "\\x1b[4m" \o text \o "\\x1b[24m"

RECURSIVE JoinText(_, _)
\* list.join(sep) of a list of strings
JoinText(list, sep) ==
    IF list = <<>> THEN ""
    ELSE IF Len(list) = 1 THEN list[1]
    ELSE list[1] \o sep \o JoinText(Tail(list), sep)

\* ...(condition ? [item] : [])
Spread(condition, items) == IF condition THEN items ELSE <<>>

PackagesInstalledList(promptResponses) ==
    Spread(promptResponses.orm = "drizzle",
           <<Underline("ORM") \o ": Drizzle (using " \o promptResponses.dbProvider \o ")">>)
    \o Spread(promptResponses.orm = "prisma", <<Underline("ORM") \o ": Prisma">>)
    \o Spread(promptResponses.auth = "next-auth",
           <<Underline("Authentication") \o ": Auth.js (with "
               \o JoinText(promptResponses.authProviders, ", ") \o " providers)">>)
    \o Spread(promptResponses.auth = "clerk", <<Underline("Authentication") \o ": Clerk">>)
    \o Spread(promptResponses.auth = "lucia", <<Underline("Authentication") \o ": Lucia">>)
    \o Spread(promptResponses.auth = "kinde", <<Underline("Authentication") \o ": Kinde">>)
    \o Spread("stripe" \in promptResponses.miscPackages, <<Underline("Payments") \o ": Stripe">>)
    \o Spread("resend" \in promptResponses.miscPackages, <<Underline("Email") \o ": Resend">>)
    \o Spread("trpc" \in promptResponses.miscPackages, <<Underline("RPC") \o ": tRPC">>)
    \o Spread(promptResponses.componentLib = "shadcn-ui",
           <<Underline("Component Library") \o ": ShadcnUI">>)

WouldHaveSecrets(promptResponses) ==
    \/ Truthy(promptResponses.orm)
    \/ Truthy(promptResponses.auth)
    \/ "resend" \in promptResponses.miscPackages
    \/ "stripe" \in promptResponses.miscPackages

DbMigrationAlwaysPush(promptResponses, ppm) ==
    <<"Run '" \o ppm \o " run db:generate'",
      "Run '" \o ppm \o " run db:push'",
      "Run '" \o ppm \o " run dev'",
      "Open localhost:3000/ in your browser">>

DbMigration(promptResponses, ppm) ==
    <<"Run '" \o ppm \o " run db:generate'",
      "Run '" \o ppm \o " run db:"
          \o (IF promptResponses.db = "pg" THEN "migrate" ELSE "push") \o "'",
      "Run '" \o ppm \o " run dev'",
      "Open localhost:3000/ in your browser">>

RunMigration(promptResponses) ==
    \/ Truthy(promptResponses.orm)
    \/ promptResponses.auth = "lucia"
    \/ promptResponses.auth = "next-auth"
    \/ "stripe" \in promptResponses.miscPackages

NextSteps(promptResponses, ppm) ==
    Spread(WouldHaveSecrets(promptResponses), <<"Add Environment Variables to your .env">>)
    \o Spread(RunMigration(promptResponses), DbMigration(promptResponses, ppm))
    \o <<"Build something awesome!">>

\* The selections the prompts can produce.  The notes list, which needs the
\* AuthProviders table of another file, is left out.
PromptResponses ==
    [orm : {Undefined, "drizzle", "prisma"},
     db : {Undefined, "pg", "mysql"},
     dbProvider : {Undefined, "pg"},
     auth : {Undefined, "next-auth", "clerk", "lucia", "kinde"},
     authProviders : {<<>>, <<"google">>},
     miscPackages : SUBSET {"trpc", "stripe", "resend"},
     componentLib : {Undefined, "shadcn-ui"}]

\* The pipeline prints the summary once, at its end.
printNextSteps(promptResponses, config) ==
    /\ summary = <<>>
    /\ summary' = <<[promptResponses |-> promptResponses,
                     ppm |-> Ppm(config),
                     packagesInstalledList |-> PackagesInstalledList(promptResponses),
                     nextSteps |-> NextSteps(promptResponses, Ppm(config))]>>
    /\ UNCHANGED <<layoutVars, installVars>>

-----------------------------------------------------------------------------
(* Specifications *)

InitLayout ==
    /\ layout0 \in Layouts
    /\ layout = layout0
    /\ applied = <<>>
    /\ lastCall = NoCall

InitInstall ==
    /\ installList = [regular |-> <<>>, dev |-> <<>>]
    /\ shadCnComponentList = <<>>
    /\ installPackagesCalls = <<>>
    /\ installShadcnCalls = <<>>
    /\ flushes = [packages |-> <<>>, shadcn |-> <<>>]

InitSummary == summary = <<>>

Init == InitLayout /\ InitInstall /\ InitSummary

\* the aggregators and the summary do not read layout.tsx
InitStandardLayout ==
    InitLayout /\ layout0 = StandardLayout /\ InitInstall /\ InitSummary

NextLayout == \E provider \in Providers : addContextProviderToLayout(provider)

NextInstall ==
    \/ \E regular \in Arrays(RegularEntries, MaxList), dev \in Arrays(DevEntries, MaxList) :
           addToInstallList([regular |-> regular, dev |-> dev])
    \/ \E pm \in PackageManagers : installPackagesFromList(pm)
    \/ \E components \in Arrays(Components, MaxList) : addToShadcnComponentList(components)
    \/ installShadcnComponentList

NextSummary ==
    \E promptResponses \in PromptResponses, config \in {Undefined, "pnpm"} :
        printNextSteps(promptResponses, config)

Next == NextLayout \/ NextInstall \/ NextSummary

\* the whole module
Spec == Init /\ [][Next]_vars

\* the layout patcher alone
SpecLayout == Init /\ [][NextLayout]_vars

\* the two aggregators alone
SpecInstall == InitStandardLayout /\ [][NextInstall]_vars

\* the summary alone
SpecSummary == InitStandardLayout /\ [][NextSummary]_vars

-----------------------------------------------------------------------------
(* Properties of the layout patcher, checked under SpecLayout *)

Count(s, p) == Cardinality(Occurrences(s, p))

WrappingProviders == {"NextAuthProvider", "ClerkProvider", "ThemeProvider", "TrpcProvider"}

\* inner enclosed by provider's element
Wrapped(inner, provider) ==
    <<NL, OpenTag(provider)>> \o inner \o <<CloseTag(provider), NL>>

Called == lastCall.provider # "none"

\* the providers applied before the latest call
AppliedBefore == {applied[i] : i \in 1..(Len(applied) - 1)}

\* C1: applying a provider a second time in a row returns at the import
\* check, writes nothing and leaves the document as the first application
\* left it.
C1_Idempotence ==
    (Len(applied) >= 2 /\ applied[Len(applied)] = applied[Len(applied) - 1])
        => /\ lastCall.returned
           /\ ~lastCall.wrote
           /\ layout = lastCall.fileContent

C1_Witness ==
    /\ Len(applied) = 2
    /\ applied[1] = applied[2]
    /\ layout # layout0
    /\ lastCall.returned

\* the anchor of a document, by its shape
AnchorOf(doc) == IF Includes(doc, <<"<Navbar />">>) THEN NavigationBlock ELSE <<"{children}">>

C3_AnchorShapeTransition ==
    (Called /\ ~lastCall.returned)
        => /\ "Navbar" \in AppliedBefore
               => /\ lastCall.searchValue = NavigationBlock
                  /\ lastCall.provider \in WrappingProviders
                       => /\ Includes(layout, Wrapped(NavigationBlock, lastCall.provider))
                          /\ ~Includes(layout, Wrapped(<<"{children}">>, lastCall.provider))
           /\ ~Includes(lastCall.fileContent, <<"<Navbar />">>)
               => lastCall.searchValue = <<"{children}">>

\* C6: an application that gets past the import check on a document without
\* its anchor raises PatchAnchorNotFoundError and writes nothing.
C6_AbsentAnchorRaises ==
    (Called /\ ~lastCall.returned
        /\ ~Includes(lastCall.fileContent, AnchorOf(lastCall.fileContent)))
        => /\ lastCall.thrown = "PatchAnchorNotFoundError"
           /\ ~lastCall.wrote

\* C7: an application to a document without any import raises
\* MalformedTargetFileError and writes nothing.
C7_ZeroImportRaises ==
    (Called /\ ~Includes(lastCall.fileContent, <<"import">>))
        => /\ lastCall.thrown = "MalformedTargetFileError"
           /\ ~lastCall.wrote

\* the positions at which an import statement starts: "import" at the start
\* of a line
ImportStatementStarts(doc) ==
    {i \in Occurrences(doc, <<"import">>) : i = 0 \/ doc[i] = NL}

\* the start of the line after the last import statement, which ends at its ";"
LineAfterLastImportStatement(doc) ==
    IndexOf(doc, <<NL>>, IndexOf(doc, <<";">>, SetMax(ImportStatementStarts(doc)))) + 1

\* C9: when a document with an import statement is modified, the new import
\* statement and a newline are spliced in at the start of the line after the
\* last import statement, the text on both sides unchanged.
C9_ImportInsertionPoint ==
    (Called /\ lastCall.wrote /\ ImportStatementStarts(lastCall.fileContent) # {})
        => LET doc == lastCall.fileContent
               at == LineAfterLastImportStatement(doc)
           IN  lastCall.modifiedImportContent =
                   Slice(doc, 0, at) \o ImportStatement(lastCall.provider) \o <<NL>>
                       \o SliceFrom(doc, at)

\* C10 as stated: from a document with one {children} and no navigation
\* block, after every call the document holds exactly one anchor of its
\* shape, and every application that writes has found its anchor.
C10_SingleAnchor_AsStated ==
    (Called /\ Count(layout0, <<"{children}">>) = 1 /\ ~Includes(layout0, NavigationBlock))
        => /\ Count(layout, AnchorOf(layout)) = 1
           /\ lastCall.wrote => Includes(lastCall.modifiedImportContent, lastCall.searchValue)

\* C10, amended: the same from a document with one {children} and no
\* <Navbar /> element at all.
C10_SingleAnchor ==
    (Count(layout0, <<"{children}">>) = 1 /\ ~Includes(layout0, <<"<Navbar />">>))
        => /\ Count(layout, AnchorOf(layout)) = 1
           /\ lastCall.wrote => Includes(lastCall.modifiedImportContent, lastCall.searchValue)

C10_Witness ==
    /\ Count(layout0, <<"{children}">>) = 1
    /\ ~Includes(layout0, <<"<Navbar />">>)
    /\ Len(applied) = MaxCalls
    /\ "Navbar" \in AppliedBefore
    /\ lastCall.wrote
    /\ \E i \in 2..Len(applied) : applied[i] = applied[i - 1]

-----------------------------------------------------------------------------
(* Properties of the aggregators, checked under SpecInstall *)

\* the names a list holds: its entries, trimmed
Names(list) == {Trim(list[i]) : i \in 1..Len(list)}

\* the distinct entries of a list, as pushed, that name n
Spellings(list, n) == {e \in {list[i] : i \in 1..Len(list)} : Trim(e) = n}

\* C4 as stated: each name of the list, compared after the trim, occurs
\* exactly once in the string passed to installPackages, for the regular and
\* for the dev list.
C4_DedupAfterTrim_AsStated ==
    \A i \in 1..Len(installPackagesCalls) :
        /\ \A n \in Names(flushes.packages[i].regular) :
               Count(installPackagesCalls[i].packages.regular, n) = 1
        /\ \A n \in Names(flushes.packages[i].dev) :
               Count(installPackagesCalls[i].packages.dev, n) = 1

\* C4, amended: entries are compared as pushed, before the trim; a name
\* occurs in the string once for each distinct spelling it was pushed with.
C4_DedupBeforeTrim ==
    \A i \in 1..Len(installPackagesCalls) :
        /\ \A n \in Names(flushes.packages[i].regular) :
               Count(installPackagesCalls[i].packages.regular, n)
                   = Cardinality(Spellings(flushes.packages[i].regular, n))
        /\ \A n \in Names(flushes.packages[i].dev) :
               Count(installPackagesCalls[i].packages.dev, n)
                   = Cardinality(Spellings(flushes.packages[i].dev, n))

C4_Witness ==
    /\ Len(installPackagesCalls) = 1
    /\ flushes.packages[1].regular = << <<"zod">>, <<"zod">> >>
    /\ flushes.packages[1].dev = << <<"drizzle-kit">>, <<"drizzle-kit", " ">> >>

\* C5: a flush that finds its list or lists empty does not call the
\* installer.
C5_EmptyFlushNoOp ==
    /\ \A i \in 1..Len(flushes.packages) :
           (flushes.packages[i].regular = <<>> /\ flushes.packages[i].dev = <<>>)
               => installPackagesCalls = <<>>
    /\ \A i \in 1..Len(flushes.shadcn) :
           flushes.shadcn[i] = <<>> => installShadcnCalls = <<>>

C5_Witness ==
    /\ flushes.packages = <<[regular |-> <<>>, dev |-> <<>>]>>
    /\ flushes.shadcn = << <<>> >>
    /\ installList = [regular |-> <<>>, dev |-> <<>>]
    /\ shadCnComponentList = <<>>

-----------------------------------------------------------------------------
(* Properties of the summary, checked under SpecSummary *)

MigrationNeeded(r) ==
    \/ r.orm \in {"drizzle", "prisma"}
    \/ r.auth \in {"lucia", "next-auth"}
    \/ "stripe" \in r.miscPackages

PgNextSteps(ppm) ==
    <<"Add Environment Variables to your .env",
      "Run '" \o ppm \o " run db:generate'",
      "Run '" \o ppm \o " run db:migrate'",
      "Run '" \o ppm \o " run dev'",
      "Open localhost:3000/ in your browser",
      "Build something awesome!">>

\* the selections of the example, which name the engine in dbProvider
ExampleSelections(r) ==
    /\ r.orm = "drizzle"
    /\ r.dbProvider = "pg"
    /\ r.auth = "next-auth"
    /\ r.authProviders = <<"google">>
    /\ r.miscPackages = {"trpc"}
    /\ r.componentLib = "shadcn-ui"

\* C8 as stated: for the example selections, and whenever migration is
\* needed and the engine is pg, the next steps are the environment note, the
\* four migration steps with db:migrate, and the closing step.
C8_PgNextSteps_AsStated ==
    \A i \in 1..Len(summary) :
        (\/ ExampleSelections(summary[i].promptResponses)
         \/ /\ MigrationNeeded(summary[i].promptResponses)
            /\ summary[i].promptResponses.db = "pg")
            => summary[i].nextSteps = PgNextSteps(summary[i].ppm)

\* C8, amended: the same whenever migration is needed and the db selection
\* is pg; dbProvider plays no part.
C8_PgNextSteps ==
    \A i \in 1..Len(summary) :
        (/\ MigrationNeeded(summary[i].promptResponses)
         /\ summary[i].promptResponses.db = "pg")
            => summary[i].nextSteps = PgNextSteps(summary[i].ppm)

C8_Witness ==
    /\ Len(summary) = 1
    /\ ExampleSelections(summary[1].promptResponses)
    /\ summary[1].promptResponses.db = "pg"
    /\ summary[1].nextSteps[3] = "Run 'npm run db:migrate'"

====
